---- MODULE Spec2Model ----
(***************************************************************************)
(* Model of main.py: the DSMR telegram decode pass (parse_telegram), the   *)
(* wire-timestamp conversion (parse_dt_to_utc) and the run loop (main).    *)
(*                                                                         *)
(* Data abstractions                                                       *)
(*  - a number is Num(n) where n counts thousandths (0.424 is Num(424));   *)
(*  - a wire timestamp YYMMDDHHMMSS is a wall-clock hour of the day on     *)
(*    which daylight saving ends in Europe/Amsterdam; an instant is a      *)
(*    number of hours relative to that day's local midnight in UTC+0;      *)
(*  - a sink timestamp text YYYY-MM-DDTHH:MM:SSZ is Iso(d, h): the day      *)
(*    relative to that day and the hour of the day it spells;              *)
(*  - a line is a record of what the code looks at: its first character,   *)
(*    the identifier tel_id_re finds, the groups tel_content_re_extra      *)
(*    finds, the text the two expressions skip (sfx) and, for a '!' line,  *)
(*    the checksum digits;                                                 *)
(*  - t_content keeps of every line the part that frames the telegram      *)
(*    (first character, checksum digits).                                  *)
(***************************************************************************)
EXTENDS Integers, Sequences, FiniteSets, TLC

\* ---------------------------------------------------------------- bounds
MaxReads == 6      \* lines the transport delivers during one run
MaxLines == 4      \* lines the transport delivers during one decode pass

\* ---------------------------------------------------------------- values
None     == [k |-> "none"]
NaN      == [k |-> "nan"]
Num(n)   == [k |-> "num", n |-> n]
Iso(d, h) == [k |-> "iso", d |-> d, h |-> h]
Raise(e) == [k |-> "raise", e |-> e]

IsNum(v)   == v.k = "num"
IsRaise(v) == v.k = "raise"

\* python dict
EmptyDict    == [x \in {} |-> None]
Put(d, k, v) == [x \in (DOMAIN d) \cup {k} |-> IF x = k THEN v ELSE d[x]]
Get(d, k, default) == IF k \in DOMAIN d THEN d[k] ELSE default
Del(d, k)    == [x \in (DOMAIN d) \ {k} |-> d[x]]
IsDict(d)    == d # None

\* ---------------------------------------------------------- field catalog
Drm4 ==
  [ VERSION          |-> <<1, 3, 0, 2, 8>>,
    TIMESTAMP_ELECTR |-> <<0, 0, 1, 0, 0>>,
    EQ_ID            |-> <<0, 0, 96, 1, 1>>,
    READ_DEL_T1_KWH  |-> <<1, 0, 1, 8, 1>>,
    READ_DEL_T2_KWH  |-> <<1, 0, 1, 8, 2>>,
    TARIFF_INDICATOR |-> <<0, 0, 96, 14, 0>>,
    POWER_DEL_KW     |-> <<1, 0, 21, 7, 0>>,
    CURRENT_A        |-> <<1, 0, 31, 7, 0>>,
    GAS_T_VOLUME_M3  |-> <<0, 1, 24, 2, 1>>,
    UNUSED_01        |-> <<1, 0, 2, 8, 1>>,
    UNUSED_02        |-> <<1, 0, 2, 8, 2>>,
    UNUSED_03        |-> <<1, 0, 1, 7, 0>>,
    UNUSED_04        |-> <<1, 0, 2, 7, 0>>,
    UNUSED_05        |-> <<0, 0, 96, 7, 9>>,
    UNUSED_06        |-> <<0, 0, 96, 7, 21>>,
    UNUSED_07        |-> <<1, 0, 99, 97, 0>>,
    UNUSED_08        |-> <<1, 0, 32, 32, 0>>,
    UNUSED_09        |-> <<1, 0, 32, 36, 0>>,
    UNUSED_10        |-> <<0, 0, 96, 13, 1>>,
    UNUSED_11        |-> <<0, 0, 96, 13, 0>>,
    UNUSED_12        |-> <<1, 0, 22, 7, 0>>,
    UNUSED_13        |-> <<0, 1, 24, 1, 0>>,
    UNUSED_14        |-> <<0, 1, 96, 1, 0>> ]

\* Drm4(tuple): the member with that value, or ValueError
Drm4Lookup(id) ==
  IF \E m \in DOMAIN Drm4 : Drm4[m] = id
  THEN CHOOSE m \in DOMAIN Drm4 : Drm4[m] = id
  ELSE "ValueError"

UsedFields ==
  { "TIMESTAMP_ELECTR", "READ_DEL_T1_KWH", "READ_DEL_T2_KWH", "TARIFF_INDICATOR",
    "POWER_DEL_KW", "CURRENT_A", "GAS_T_VOLUME_M3" }

UnusedFields == (DOMAIN Drm4) \ UsedFields

\* ------------------------------------------------------------------ lines
\* group texts: '' (no digits), digits and dots that spell no number
\* ('1.2.3'), a numeric literal, 'nan', or absent (the group took no part in
\* the match)
Txt(t)  == [t |-> t, n |-> 0]
Lit(n)  == [t |-> "literal", n |-> n]
NoId     == <<>>
NoHex    == <<>>
NoGroups == <<>>

Line(lead, id, groups, sfx, hex) ==
  [lead |-> lead, id |-> id, groups |-> groups, sfx |-> sfx, hex |-> hex]

EmptyLine == Line("", NoId, NoGroups, "", NoHex)

\* bytes.decode('utf-8').strip(): a timed-out read (b'') and a blank line
\* (b'\r\n') both become ''
StripLine(raw) ==
  IF raw.bytes \in {"timeout", "blank"} THEN EmptyLine ELSE raw.line

startswith(line, c) == line.lead = c

\* what t_content.append(line) keeps of a line
Framing(line) == [lead |-> line.lead, hex |-> line.hex]
Bang == [lead |-> "!", hex |-> NoHex]

\* tel_id_re.search(line): the identifier's five numbers, or no match
tel_id_re(line) == line.id

\* tel_content_re_extra.search(line).groups('nan'): group 1 always takes part
\* (possibly empty), group 2 is 'nan' when it does not
tel_content_re_extra(line) ==
  IF line.groups = NoGroups THEN None
  ELSE [k |-> "match",
        g |-> << line.groups[1],
                 IF line.groups[2] = Txt("absent") THEN Txt("nan") ELSE line.groups[2] >>]

\* float(x) for a group text
float(x) ==
  IF x.t = "nan" THEN NaN
  ELSE IF x.t = "literal" THEN Num(x.n)
  ELSE Raise("ValueError")

\* int(v) for a float: truncation, ValueError for NaN
int(v) == IF IsNum(v) THEN Num(v.n \div 1000) ELSE Raise("ValueError")

\* 1000 * v for a float
times1000(v) == IF IsNum(v) THEN Num(1000 * v.n) ELSE v

\* [float(x) for x in groups if x], then the one-element case (lines 104-106)
Converted(g) ==
  LET kept == SelectSeq(g, LAMBDA x : x # Txt(""))
      conv == [i \in 1..Len(kept) |-> float(kept[i])]
  IN  IF \E i \in 1..Len(conv) : IsRaise(conv[i]) THEN Raise("ValueError")
      ELSE IF Len(conv) < 2 THEN [k |-> "pair", value |-> NaN, extra |-> conv[1]]
      ELSE [k |-> "pair", value |-> conv[1], extra |-> conv[2]]

\* ------------------------------------------------------------- timestamps
\* Europe/Amsterdam on the day daylight saving ends: the wall clock shows
\* hours 0, 1, 2 in summer time (UTC+2), is set back from 3 to 2, and shows
\* 2, 3, ... in winter time (UTC+1). localize() without is_dst reads the
\* repeated hour 2 as winter time. Instants are UTC hours.
SummerOffset == 2
WinterOffset == 1
DstEndWall   == 2

localize(wall) ==
  IF wall < DstEndWall THEN wall - SummerOffset ELSE wall - WinterOffset

\* strptime(str(n), '%y%m%d%H%M%S'): n has to spell an hour of the day
strptime(n) == IF n.n \in 0..23 THEN n ELSE Raise("ValueError")

parse_dt_to_utc(dt_naive_f) ==
  LET i == int(dt_naive_f) IN
  IF IsRaise(i) THEN i
  ELSE LET dt_naive == strptime(i) IN
       IF IsRaise(dt_naive) THEN dt_naive
       ELSE Num(localize(dt_naive.n))

\* the text written from the fields of the local wall clock
strftimeLocal(dt) == Iso((dt.n + WinterOffset) \div 24, (dt.n + WinterOffset) % 24)

\* dt.strftime(INFLUX_DT_FMT) for an instant in UTC: the date and the hour
\* of the day, followed by the letter Z
strftime(dt) == Iso(dt.n \div 24, dt.n % 24)

\* TZ_INFLUX.localize(datetime.strptime(text, INFLUX_DT_FMT)) (lines 157, 161):
\* the date and hour the text spells, read as UTC
parse_influx_dt(text) == Num(24 * text.d + text.h)

\* --------------------------------------------------------------- checksum
\* drm4_crc over DRM4_LINE_SEP.join(t_content): a 16-bit value that depends
\* on every line and on the order of the lines
RECURSIVE crc_fold(_, _)
crc_fold(c, lines) ==
  IF lines = <<>> THEN c
  ELSE LET x == Head(lines)
           code == IF x.lead = "" THEN 1
                   ELSE IF x.lead = "/" THEN 2
                   ELSE IF x.lead = "!" THEN (IF x.hex = NoHex THEN 4 ELSE 5 + x.hex[1])
                   ELSE 3
       IN  crc_fold((2 * c + code) % 65536, Tail(lines))

drm4_crc(data) == crc_fold(0, data)

\* ------------------------------------------------------- parse_telegram
\* the locals of one decode pass; branch is the way the last iteration left
\* the loop body (the continue, break, raise or assignment it ended with)
NewPass ==
  [ awaiting_start |-> TRUE,
    t_content      |-> <<>>,
    telegram_info  |-> EmptyDict,
    branch         |-> "",
    crc_calc       |-> <<>>,
    status         |-> "running" ]

Raised(p)       == [p EXCEPT !.status = "raised", !.branch = "ValueError"]
Store(p, k, v)  == [p EXCEPT !.telegram_info = Put(@, k, v), !.branch = "stored"]

\* a '!' line taken for the end marker before any start marker was read
AwaitStartEnds(p, line) ==
  IF startswith(line, "/")
  THEN [p EXCEPT !.awaiting_start = FALSE, !.branch = "start"]
  ELSE IF startswith(line, "!")
       THEN [p EXCEPT !.branch = "end_of_telegram", !.status = "returned"]
       ELSE [p EXCEPT !.branch = "ignored_waiting_for_start"]

\* lines 78-83
AwaitStart(p, line) ==
  IF startswith(line, "/")
  THEN [p EXCEPT !.awaiting_start = FALSE, !.branch = "start"]
  ELSE [p EXCEPT !.branch = "ignored_waiting_for_start"]

\* the checksum deciding whether the telegram is kept
EndOfTelegramChecked(p, line) ==
  LET data == Append(p.t_content, Bang)
      crc  == <<drm4_crc(data)>>
  IN  [p EXCEPT !.t_content = data,
                !.crc_calc  = crc,
                !.branch    = "end_of_telegram",
                !.telegram_info = IF crc = line.hex THEN @ ELSE None,
                !.status    = "returned"]

\* lines 85-90
EndOfTelegram(p, line) ==
  LET data == Append(p.t_content, Bang) IN
  [p EXCEPT !.t_content = data,
            !.crc_calc  = <<drm4_crc(data)>>,
            !.branch    = "end_of_telegram",
            !.status    = "returned"]

\* the watermark test the wrong way round
IsStaleReversed(dt, last_timestamp) == last_timestamp # None /\ dt.n >= last_timestamp.n

\* the watermark test with < for <=
IsStaleStrict(dt, last_timestamp) == last_timestamp # None /\ dt.n < last_timestamp.n

\* line 116 and line 140: the watermark test
IsStale(dt, last_timestamp) == last_timestamp # None /\ dt.n <= last_timestamp.n

\* lines 114-121
TimestampElectr(p, value, last_timestamp_electr) ==
  LET dt == parse_dt_to_utc(value) IN
  IF IsRaise(dt) THEN Raised(p)
  ELSE IF IsStale(dt, last_timestamp_electr)
       THEN [p EXCEPT !.telegram_info = None,
                      !.branch = "ignoring_telegram",
                      !.status = "returned"]
       ELSE Store(p, "dt_electricity", dt)

\* lines 128-129
TariffIndicator(p, value) ==
  LET i == int(value) IN
  IF IsRaise(i) THEN Raised(p) ELSE Store(p, "tariff_indicator", i)

\* a stale gas timestamp treated like a stale electricity timestamp
GasVolumeDiscard(p, value, extra, last_timestamp_gas) ==
  LET dt == parse_dt_to_utc(value) IN
  IF IsRaise(dt) THEN Raised(p)
  ELSE IF IsStale(dt, last_timestamp_gas)
       THEN [p EXCEPT !.telegram_info = None, !.branch = "ignoring_gas", !.status = "returned"]
       ELSE Store(Store(Store(p, "gas", extra), "gas_time", strftime(dt)), "gas_dt", dt)

\* the gas fields stored without the watermark test
GasVolumeUnchecked(p, value, extra, last_timestamp_gas) ==
  LET dt == parse_dt_to_utc(value) IN
  IF IsRaise(dt) THEN Raised(p)
  ELSE Store(Store(Store(p, "gas", extra), "gas_time", strftime(dt)), "gas_dt", dt)

\* lines 137-146
GasVolume(p, value, extra, last_timestamp_gas) ==
  LET dt == parse_dt_to_utc(value) IN
  IF IsRaise(dt) THEN Raised(p)
  ELSE IF IsStale(dt, last_timestamp_gas) THEN [p EXCEPT !.branch = "ignoring_gas"]
  ELSE Store(Store(Store(p, "gas", extra), "gas_time", strftime(dt)), "gas_dt", dt)

\* lines 114-146: the if/elif chain over the field
Dispatch(p, field, value, extra, last_timestamp_electr, last_timestamp_gas) ==
  CASE field = "TIMESTAMP_ELECTR" -> TimestampElectr(p, value, last_timestamp_electr)
    [] field = "READ_DEL_T1_KWH"  -> Store(p, "energy_t1", value)
    [] field = "READ_DEL_T2_KWH"  -> Store(p, "energy_t2", value)
    [] field = "TARIFF_INDICATOR" -> TariffIndicator(p, value)
    [] field = "POWER_DEL_KW"     -> Store(p, "power_delivered_w", times1000(value))
    [] field = "CURRENT_A"        -> Store(p, "current_delivered", value)
    [] field = "GAS_T_VOLUME_M3"  -> GasVolume(p, value, extra, last_timestamp_gas)
    [] OTHER                      -> [p EXCEPT !.branch = "unused"]

\* the ValueError of the catalog lookup not caught
BodyLineUncaught(p, line, last_timestamp_electr, last_timestamp_gas) ==
  IF tel_id_re(line) = NoId
  THEN [p EXCEPT !.branch = "ignoring_unknown_id"]
  ELSE LET field == Drm4Lookup(tel_id_re(line)) IN
       IF field = "ValueError"
       THEN Raised(p)
       ELSE LET g_content == tel_content_re_extra(line) IN
            IF g_content = None
            THEN [p EXCEPT !.branch = "read_info_field"]
            ELSE LET converted == Converted(g_content.g) IN
                 IF IsRaise(converted) THEN Raised(p)
                 ELSE Dispatch(p, field, converted.value, converted.extra,
                               last_timestamp_electr, last_timestamp_gas)

\* lines 92-146: classify a body line, extract its values, dispatch
BodyLine(p, line, last_timestamp_electr, last_timestamp_gas) ==
  IF tel_id_re(line) = NoId
  THEN [p EXCEPT !.branch = "ignoring_unknown_id"]
  ELSE LET field == Drm4Lookup(tel_id_re(line)) IN
       IF field = "ValueError"
       THEN [p EXCEPT !.branch = "ignoring_non_implemented"]
       ELSE LET g_content == tel_content_re_extra(line) IN
            IF g_content = None
            THEN [p EXCEPT !.branch = "read_info_field"]
            ELSE LET converted == Converted(g_content.g) IN
                 IF IsRaise(converted) THEN Raised(p)
                 ELSE Dispatch(p, field, converted.value, converted.extra,
                               last_timestamp_electr, last_timestamp_gas)

\* lines 70-146: one iteration of the loop, for the line just read
Step(p, line, last_timestamp_electr, last_timestamp_gas) ==
  LET q == [p EXCEPT !.t_content = Append(@, Framing(line))]
  IN  IF line = EmptyLine THEN [q EXCEPT !.branch = "empty"]
      ELSE IF q.awaiting_start THEN AwaitStart(q, line)
      ELSE IF startswith(line, "!") THEN EndOfTelegram(q, line)
      ELSE BodyLine(q, line, last_timestamp_electr, last_timestamp_gas)

\* lines 69-148: the loop over the lines the transport delivers, until the
\* pass breaks or raises (or the lines given run out)
RECURSIVE RunPass(_, _, _, _)
RunPass(p, lines, last_timestamp_electr, last_timestamp_gas) ==
  IF lines = <<>> \/ p.status # "running" THEN p
  ELSE RunPass(Step(p, Head(lines), last_timestamp_electr, last_timestamp_gas),
               Tail(lines), last_timestamp_electr, last_timestamp_gas)

\* -------------------------------------------------------------- transport
\* what ser.readline() can return: nothing (the 20 s timeout ran out), an
\* empty line, or a line of text
Raw(line) == [bytes |-> "text", line |-> line]
Timeout   == [bytes |-> "timeout", line |-> EmptyLine]
Blank     == [bytes |-> "blank", line |-> EmptyLine]

Body(id, g1, g2, sfx) == Line("x", id, <<g1, g2>>, sfx, NoHex)

StartMarker    == Line("/", NoId, NoGroups, "ISk5", NoHex)
EndMarker(h)   == Line("!", NoId, NoGroups, "", <<h>>)
TextLine       == Line("x", NoId, NoGroups, "text", NoHex)
UnknownLine    == Body(<<9, 9, 9, 9, 9>>, Lit(1000), Txt("absent"), "")
BareLine       == Line("x", Drm4.READ_DEL_T1_KWH, NoGroups, "", NoHex)
TimestampLine(wall, flag) == Body(Drm4.TIMESTAMP_ELECTR, Lit(1000 * wall), Txt("absent"), flag)
EnergyLine     == Body(Drm4.READ_DEL_T1_KWH, Lit(1500), Txt("absent"), "*kWh")
TariffLine     == Body(Drm4.TARIFF_INDICATOR, Lit(2000), Txt("absent"), "")
PowerLine      == Body(Drm4.POWER_DEL_KW, Lit(424), Txt("absent"), "*kW")
GasLine(wall)  == Body(Drm4.GAS_T_VOLUME_M3, Lit(1000 * wall), Lit(123456), "*m3")
UnusedLine     == Body(Drm4.UNUSED_07, Lit(2000), Lit(0), "")
UnusedEmpty    == Body(Drm4.UNUSED_10, Txt(""), Txt("absent"), "")
UnusedBad      == Body(Drm4.UNUSED_01, Txt("1.2.3"), Txt("absent"), "*kWh")
EnergyEmpty    == Body(Drm4.READ_DEL_T2_KWH, Txt(""), Txt("absent"), "")

Walls == {1, 2, 3}
HexDigits == {0}

\* the wall-clock hours the meter shows on that day with the flag it sends:
\* S (summer time) up to the repeated hour, W (winter time) from it on
Emissions ==
  { [wall |-> w, flag |-> "S"] : w \in { v \in Walls : v <= DstEndWall } }
  \cup { [wall |-> w, flag |-> "W"] : w \in { v \in Walls : v >= DstEndWall } }

Lines ==
  { StartMarker, TextLine, UnknownLine, BareLine, EnergyLine, TariffLine, PowerLine,
    UnusedLine, UnusedEmpty, UnusedBad, EnergyEmpty }
  \cup { EndMarker(h) : h \in HexDigits }
  \cup { TimestampLine(e.wall, e.flag) : e \in Emissions }
  \cup { GasLine(w) : w \in Walls }

Transport == { Timeout, Blank } \cup { Raw(l) : l \in Lines }

\* -------------------------------------------------------------------- main
VARIABLES
  pc,                   \* "parse_telegram", "main" (line 166), "exit", "raised"
  exc,                  \* the exception that ended the run
  pass,                 \* the locals of the decode pass
  raw,                  \* what the last ser.readline() returned
  last_dt_electricity,  \* the watermarks
  last_dt_gas,
  sink,                 \* the points written with client.write_points
  LOOP,
  reads                 \* lines read from the transport so far

vars == <<pc, exc, pass, raw, last_dt_electricity, last_dt_gas, sink, LOOP, reads>>

\* the hour of the last point the startup queries can find in the sink, and
\* the text the sink returns for it
StoredInstants == {1}
StoredTimes    == { Iso(0, u) : u \in StoredInstants }

\* lines 152-161; LOOP is the module's switch of line 26
Init ==
  /\ pc = "parse_telegram"
  /\ exc = ""
  /\ pass = NewPass
  /\ raw = Timeout
  /\ last_dt_electricity \in {None} \cup { parse_influx_dt(t) : t \in StoredTimes }
  /\ last_dt_gas \in {None} \cup { parse_influx_dt(t) : t \in StoredTimes }
  /\ sink = <<>>
  /\ LOOP \in BOOLEAN
  /\ reads = 0

\* lines 69-148: read one line and process it; an exception leaves main
ReadLine ==
  /\ pc = "parse_telegram"
  /\ reads < MaxReads
  /\ Len(pass.t_content) < MaxLines
  /\ raw' \in Transport
  /\ pass' = Step(pass, StripLine(raw'), last_dt_electricity, last_dt_gas)
  /\ reads' = reads + 1
  /\ pc' = CASE pass'.status = "returned" -> "main"
             [] pass'.status = "raised"   -> "raised"
             [] OTHER                     -> "parse_telegram"
  /\ exc' = IF pass'.status = "raised" THEN "ValueError" ELSE exc
  /\ UNCHANGED <<last_dt_electricity, last_dt_gas, sink, LOOP>>

\* `not fields` (line 166)
Falsy(fields) == fields = None \/ DOMAIN fields = {}

\* fields.pop(key, default): the value handed back
pop(fields, key, default) == Get(fields, key, default)

\* the test of line 170 left out
NoTimestampUnchecked(fields, last) == FALSE

\* `not last_dt_electricity` after the pop of line 169 (line 170)
NoTimestamp(fields, last) == pop(fields, "dt_electricity", last) = None

\* lines 166-167
RaiseNotParsed ==
  /\ pc = "main"
  /\ Falsy(pass.telegram_info)
  /\ pc' = "raised"
  /\ exc' = "RuntimeError"
  /\ UNCHANGED <<pass, raw, last_dt_electricity, last_dt_gas, sink, LOOP, reads>>

\* lines 169-171
RaiseNoTimestamp ==
  /\ pc = "main"
  /\ ~Falsy(pass.telegram_info)
  /\ NoTimestamp(pass.telegram_info, last_dt_electricity)
  /\ pc' = "raised"
  /\ exc' = "RuntimeError"
  /\ pass' = [pass EXCEPT !.telegram_info = Del(@, "dt_electricity")]
  /\ UNCHANGED <<raw, last_dt_electricity, last_dt_gas, sink, LOOP, reads>>

\* the tariff indicator left among the fields
PointKeepsTariff(fields, time) ==
  [ measurement |-> "p1",
    fields      |-> Del(Del(fields, "dt_electricity"), "gas_dt"),
    tags        |-> [tariff |-> pop(fields, "tariff_indicator", None)],
    time        |-> time ]

\* lines 169-183: the point handed to the sink
Point(fields, time) ==
  [ measurement |-> "p1",
    fields      |-> Del(Del(Del(fields, "dt_electricity"), "gas_dt"), "tariff_indicator"),
    tags        |-> [tariff |-> pop(fields, "tariff_indicator", None)],
    time        |-> time ]

\* lines 169-191
WritePoint ==
  /\ pc = "main"
  /\ ~Falsy(pass.telegram_info)
  /\ ~NoTimestamp(pass.telegram_info, last_dt_electricity)
  /\ last_dt_electricity' = pop(pass.telegram_info, "dt_electricity", last_dt_electricity)
  /\ last_dt_gas' = pop(pass.telegram_info, "gas_dt", last_dt_gas)
  /\ sink' = Append(sink, Point(pass.telegram_info, last_dt_electricity'))
  /\ IF LOOP
     THEN pc' = "parse_telegram" /\ pass' = NewPass
     ELSE pc' = "exit" /\ pass' = pass
  /\ UNCHANGED <<raw, exc, LOOP, reads>>

Next == ReadLine \/ RaiseNotParsed \/ RaiseNoTimestamp \/ WritePoint

Spec == Init /\ [][Next]_vars

\* ================================================================= claims
InBody        == pc = "parse_telegram" /\ ~pass.awaiting_start
StepNow(line) == Step(pass, line, last_dt_electricity, last_dt_gas)
InstantOf(line) == parse_dt_to_utc(float(line.groups[1]))

TimestampLines == { TimestampLine(w, f) : w \in Walls, f \in {"S", "W"} }
GasLines       == { GasLine(w) : w \in Walls }

\* ---- C1
C1_Step ==
  (InBody /\ last_dt_electricity # None) =>
    \A l \in TimestampLines :
      LET dt == InstantOf(l)
          r  == StepNow(l)
      IN  IF dt.n <= last_dt_electricity.n
          THEN r.status = "returned" /\ r.telegram_info = None
          ELSE /\ r.status = "running"
               /\ r.telegram_info = Put(pass.telegram_info, "dt_electricity", dt)

C1_Caller ==
  (pass'.telegram_info = None) =>
    /\ last_dt_electricity' = last_dt_electricity
    /\ sink' = sink
    /\ pc' \in {"main", "raised"}

\* C1: with an electricity watermark W, a timestamp line of the body whose
\* instant is <= W ends the pass with no result, whatever was accumulated,
\* and a timestamp > W is stored; no step that leaves the pass without a
\* result changes the caller's electricity watermark or writes to the sink.
C1_StaleTelegramDiscarded == []C1_Step /\ [][C1_Caller]_vars

C1_Witness ==
  /\ pc = "raised" /\ exc = "RuntimeError"
  /\ pass.branch = "ignoring_telegram"
  /\ raw \in { Raw(l) : l \in TimestampLines }
  /\ pass.telegram_info = None
  /\ last_dt_electricity # None
  /\ Len(pass.t_content) > 2
  /\ sink = <<>>

\* ---- C2
C2_Step ==
  (InBody /\ last_dt_gas # None) =>
    \A l \in GasLines :
      LET dt == InstantOf(l)
          r  == StepNow(l)
      IN  dt.n <= last_dt_gas.n =>
            /\ r.status = "running"
            /\ r.telegram_info = pass.telegram_info
            /\ r.awaiting_start = pass.awaiting_start

C2_NoStaleGas ==
  (pc \in {"parse_telegram", "main"} /\ IsDict(pass.telegram_info) /\ last_dt_gas # None) =>
    /\ "gas_dt" \in DOMAIN pass.telegram_info =>
          pass.telegram_info["gas_dt"].n > last_dt_gas.n
    /\ "gas_dt" \notin DOMAIN pass.telegram_info =>
          DOMAIN pass.telegram_info \cap {"gas", "gas_time"} = {}

C2_Caller ==
  (pc = "main" /\ pc' \in {"parse_telegram", "exit"}) =>
    LET fields == pass.telegram_info
        point  == sink'[Len(sink')]
    IN  /\ Len(sink') = Len(sink) + 1
        /\ "gas_dt" \notin DOMAIN fields =>
             /\ last_dt_gas' = last_dt_gas
             /\ DOMAIN point.fields \cap {"gas", "gas_time", "gas_dt"} = {}
        /\ \A k \in DOMAIN fields \ {"dt_electricity", "gas_dt", "tariff_indicator"} :
             k \in DOMAIN point.fields /\ point.fields[k] = fields[k]

\* C2: with a gas watermark G, a gas line of the body whose timestamp is <= G
\* leaves the accumulated record and the pass as they were (the pass goes
\* on); the record never holds gas fields of a timestamp <= G; and a record
\* without gas fields is written to the sink with every other field, the gas
\* watermark staying G.
C2_StaleGasOnlyDropsGas == [](C2_Step /\ C2_NoStaleGas) /\ [][C2_Caller]_vars

C2_Witness ==
  /\ pc = "parse_telegram"
  /\ pass.branch = "ignoring_gas"
  /\ raw \in { Raw(l) : l \in GasLines }
  /\ last_dt_gas # None /\ last_dt_electricity # None
  /\ "dt_electricity" \in DOMAIN pass.telegram_info
  /\ "power_delivered_w" \in DOMAIN pass.telegram_info


\* ---- C3
MaxBody == 2      \* body lines of a telegram of the two-pass check

TelegramLines ==
  { TimestampLine(w, "W") : w \in Walls }
  \cup { EmptyLine, PowerLine, TariffLine, GasLine(2), GasLine(3) }

IsTimestampLine(l) == l.id = Drm4.TIMESTAMP_ELECTR

\* well-formed telegrams: start marker, body lines among them exactly one
\* timestamp line, end marker
Telegrams ==
  { <<StartMarker>> \o b \o <<EndMarker(0)>> :
      b \in { c \in UNION { [1..n -> TelegramLines] : n \in 1..MaxBody } :
                Cardinality({ i \in DOMAIN c : IsTimestampLine(c[i]) }) = 1 } }

\* the wall-clock hour a telegram carries
StampOf(t) == (CHOOSE i \in DOMAIN t : IsTimestampLine(t[i]))

C3_Pair(t1, t2) ==
  LET le0 == last_dt_electricity
      lg0 == last_dt_gas
      r1  == RunPass(NewPass, t1, le0, lg0)
      le1 == pop(r1.telegram_info, "dt_electricity", le0)
      lg1 == pop(r1.telegram_info, "gas_dt", lg0)
      r2  == RunPass(NewPass, t2, le1, lg1)
      le2 == pop(r2.telegram_info, "dt_electricity", le1)
  IN  /\ r1.status = "returned" /\ Len(r1.t_content) = Len(t1) + 1
      /\ ~Falsy(r1.telegram_info) /\ ~NoTimestamp(r1.telegram_info, le0)
      /\ r2.status = "returned" /\ Len(r2.t_content) = Len(t2) + 1
      /\ ~Falsy(r2.telegram_info) /\ ~NoTimestamp(r2.telegram_info, le1)
      /\ le1 = InstantOf(t1[StampOf(t1)])
      /\ le2 = InstantOf(t2[StampOf(t2)])
      /\ le2.n > le1.n

\* C3: at the start of a run, for any two well-formed telegrams with
\* strictly increasing timestamps, the first fresh against the watermark the
\* run starts with, two passes with the watermarks handed from the first to
\* the second as lines 169 and 173 do both return a record main accepts, and
\* the electricity watermark after the second is strictly greater than after
\* the first; in the run itself the electricity watermark is always the time
\* of the last point written.
C3_TwoPassesAdvance ==
  /\ (reads = 0) =>
       \A t1 \in Telegrams, t2 \in Telegrams :
         LET s1 == InstantOf(t1[StampOf(t1)])
         IN  ( /\ t1[StampOf(t1)].groups[1].n < t2[StampOf(t2)].groups[1].n
               /\ (last_dt_electricity = None \/ s1.n > last_dt_electricity.n) )
             => C3_Pair(t1, t2)
  /\ (sink # <<>>) => last_dt_electricity = sink[Len(sink)].time

C3_Witness ==
  /\ Len(sink) = 2
  /\ sink[1].time.n < sink[2].time.n
  /\ last_dt_electricity = sink[2].time
  /\ pc = "parse_telegram"

\* ---- C4
\* C4: a telegram discarded for a stale electricity timestamp yields no
\* result and the run does not end in an error because of it.
C4_StaleTelegramRecoverable ==
  (pass.branch = "ignoring_telegram") =>
    (pass.telegram_info = None /\ pc # "raised" /\ exc = "")

\* ---- C5
C5_State ==
  /\ \A i \in 1..Len(sink) : IsNum(sink[i].time)
  /\ (last_dt_electricity = None) => (sink = <<>>)

C5_Caller ==
  ( /\ pc = "main"
    /\ last_dt_electricity = None
    /\ "dt_electricity" \notin DOMAIN pass.telegram_info )
  => (pc' = "raised" /\ exc' = "RuntimeError" /\ sink' = sink)

\* C5: every point in the sink has a time; while there is no electricity
\* watermark nothing has been written; and main, given a result without an
\* electricity timestamp while it holds no watermark, raises and writes
\* nothing.
C5_NoPointWithoutTime == []C5_State /\ [][C5_Caller]_vars

C5_Witness ==
  /\ pc = "raised" /\ exc = "RuntimeError"
  /\ IsDict(pass.telegram_info) /\ DOMAIN pass.telegram_info # {}
  /\ pass.branch = "end_of_telegram"
  /\ last_dt_electricity = None
  /\ sink = <<>>

\* ---- C6
\* the checksum digits that equal the checksum computed for the lines read
MatchingHex(t_content) == (65536 - ((4 * drm4_crc(t_content) + 14) % 65536)) % 65536

\* C6: whatever the pass has read, reading an end-marker line gives the same
\* result (status, record, framer state, number of lines consumed) for any
\* checksum digits, those that match the computed checksum included.
C6_ChecksumDoesNotGate ==
  (pc = "parse_telegram") =>
    \A h1 \in HexDigits \cup {1}, h2 \in {MatchingHex(pass.t_content)} :
      LET r1 == StepNow(EndMarker(h1))
          r2 == StepNow(EndMarker(h2))
      IN  /\ r1.status = r2.status
          /\ r1.telegram_info = r2.telegram_info
          /\ r1.awaiting_start = r2.awaiting_start
          /\ Len(r1.t_content) = Len(r2.t_content)
          /\ (~pass.awaiting_start /\ h1 # h2) => (r2.crc_calc = <<h2>> /\ r1.crc_calc # <<h1>>)

C6_Witness ==
  /\ pc = "exit"
  /\ pass.branch = "end_of_telegram"
  /\ pass.crc_calc # pass.t_content[Len(pass.t_content) - 1].hex
  /\ Len(sink) = 1

\* ---- C7
\* C7: a read that times out in the body ends the pass with a failure of its
\* own: the pass does not go on as it does for a blank line and does not
\* return as at the end marker.
C7_TimeoutIsPartialTelegram ==
  [][ (InBody /\ raw' = Timeout) =>
        /\ pass'.status \notin {"running", "returned"}
        /\ pass' # StepNow(StripLine(Blank)) ]_vars

\* ---- C8
\* C8: at the end marker the lines of the checksum are the start-marker line,
\* the non-empty body lines and one bare '!': no blank line, nothing from
\* before the start marker, no checksum digits.
C8_ChecksumLines ==
  (pass.branch = "end_of_telegram") =>
    LET data == pass.t_content
        n    == Len(data)
    IN  /\ data[1].lead = "/"
        /\ data[n] = Bang
        /\ \A i \in 1..(n - 1) : data[i].lead \notin {"", "!"}

\* ---- C9
UnusedLines ==
  { l \in Lines : l.lead = "x" /\ Drm4Lookup(l.id) \in UnusedFields }
  \cup { Line("x", Drm4[f], NoGroups, "", NoHex) : f \in UnusedFields }
  \cup { Body(Drm4[f], Lit(50000), Txt("absent"), "") : f \in UnusedFields }

\* C9: a body line with a known-but-unused identifier leaves the record as
\* it is, is not taken for an unknown or unimplemented identifier, and the
\* pass goes on.
C9_UnusedLineSkipped ==
  [][ (InBody /\ raw' \in { Raw(l) : l \in UnusedLines }) =>
        /\ pass'.telegram_info = pass.telegram_info
        /\ pass'.branch \notin {"ignoring_unknown_id", "ignoring_non_implemented"}
        /\ pass'.status = "running" /\ pc' = "parse_telegram" ]_vars

\* ---- C10
SkippedLines ==
  { TextLine, StartMarker, UnknownLine,
    Body(NoId, Txt("1.2.3"), Txt("absent"), ""),
    Body(<<1, 0, 1, 8, 3>>, Txt(""), Lit(5000), ""),
    Line("x", <<9, 9, 9, 9, 9>>, NoGroups, "", NoHex) }

\* C10: a body line without an identifier, or with an identifier the catalog
\* does not hold, changes neither the record nor the framer state, decodes
\* nothing, and the pass goes on and still returns the same record at the
\* end marker.
C10_UnknownLineSkipped ==
  InBody =>
    \A l \in SkippedLines :
      LET r == StepNow(l)
          e == Step(r, EndMarker(0), last_dt_electricity, last_dt_gas)
      IN  /\ r.telegram_info = pass.telegram_info
          /\ r.awaiting_start = pass.awaiting_start
          /\ r.status = "running"
          /\ r.branch = (IF l.id = NoId THEN "ignoring_unknown_id"
                                        ELSE "ignoring_non_implemented")
          /\ e.status = "returned" /\ e.telegram_info = pass.telegram_info

C10_Witness ==
  /\ pc = "main"
  /\ pass.branch = "end_of_telegram"
  /\ Len(pass.t_content) = 5
  /\ pass.t_content[1].lead = "/" /\ pass.t_content[3].lead = "/"
  /\ DOMAIN pass.telegram_info = {"power_delivered_w"}

\* ---- C11
EndMarkerLines == { EndMarker(h) : h \in HexDigits }

NoLiteralLines ==
  { Line("x", Drm4[f], NoGroups, "", NoHex) : f \in DOMAIN Drm4 }
  \cup { Body(Drm4[f], Txt(""), Txt("absent"), "") : f \in DOMAIN Drm4 }

\* C11: a body line with a catalog identifier and no numeric literal (no
\* group, or a group without digits) leaves the record as it is, stores no
\* undefined value, and the pass goes on without an error.
C11_NoLiteralLineSkipped ==
  [][ (InBody /\ raw' \in { Raw(l) : l \in NoLiteralLines }) =>
        /\ pass'.telegram_info = pass.telegram_info
        /\ \A k \in DOMAIN pass'.telegram_info : pass'.telegram_info[k] # NaN
        /\ pass'.status = "running" /\ pc' = "parse_telegram" ]_vars

\* ---- C12
Separate == {"dt_electricity", "gas_dt", "tariff_indicator"}

C12_State ==
  \A i \in 1..Len(sink) : DOMAIN sink[i].fields \cap Separate = {}

C12_Caller ==
  (Len(sink') = Len(sink) + 1) =>
    LET fields == pass.telegram_info
        point  == sink'[Len(sink')]
    IN  /\ pc = "main" /\ pass.status = "returned" /\ IsDict(fields)
        /\ DOMAIN point.fields = (DOMAIN fields) \ Separate
        /\ \A k \in DOMAIN point.fields : point.fields[k] = fields[k]
        /\ "dt_electricity" \in DOMAIN fields =>
             /\ point.time = fields["dt_electricity"]
             /\ last_dt_electricity' = fields["dt_electricity"]
        /\ point.tags.tariff = (IF "tariff_indicator" \in DOMAIN fields
                                THEN fields["tariff_indicator"] ELSE None)

\* C12: the point written for an accepted telegram holds every field of the
\* record except the electricity timestamp, the gas watermark candidate and
\* the tariff indicator; the record's electricity timestamp is the point's
\* time and the new electricity watermark; the tariff indicator is the
\* point's tag, None when the record has none.
C12_PointShape == []C12_State /\ [][C12_Caller]_vars

C12_Witness ==
  /\ pc = "exit" /\ Len(sink) = 1
  /\ {"dt_electricity", "tariff_indicator"} \subseteq DOMAIN pass.telegram_info
  /\ sink[1].tags.tariff = pass.telegram_info["tariff_indicator"]
  /\ sink[1].time = pass.telegram_info["dt_electricity"]
  /\ DOMAIN sink[1].fields = {}

\* ---- C13
\* C13: a pass that discards the telegram for a stale electricity timestamp
\* returns only after it has read the end-marker line.
C13_StaleDiscardReadsToEndMarker ==
  (pass.branch = "ignoring_telegram") => raw \in { Raw(l) : l \in EndMarkerLines }

\* ---- C14
Advances(old, new) == new = old \/ (new # None /\ (old = None \/ new.n > old.n))

C14_Step ==
  /\ Advances(last_dt_electricity, last_dt_electricity')
  /\ Advances(last_dt_gas, last_dt_gas')
  /\ (last_dt_electricity' # last_dt_electricity) =>
       /\ pc = "main" /\ IsDict(pass.telegram_info)
       /\ "dt_electricity" \in DOMAIN pass.telegram_info
  /\ (last_dt_gas' # last_dt_gas) =>
       /\ pc = "main" /\ IsDict(pass.telegram_info)
       /\ "gas_dt" \in DOMAIN pass.telegram_info
  /\ (pass.telegram_info = None \/ pass'.telegram_info = None) =>
       (last_dt_electricity' = last_dt_electricity /\ last_dt_gas' = last_dt_gas)

\* C14: in every step of the run each watermark stays as it is or becomes
\* strictly greater (or is set for the first time); it changes only when
\* main takes the timestamp of a returned record; and no step before or
\* after a pass without a result changes either.
C14_WatermarksAdvance == [][C14_Step]_vars

C14_Witness ==
  /\ pc = "parse_telegram" /\ Len(sink) = 1 /\ reads < MaxReads
  /\ "gas_time" \in DOMAIN sink[1].fields
  /\ last_dt_electricity = sink[1].time /\ last_dt_electricity.n > 1
  /\ last_dt_gas # None /\ last_dt_gas.n > 1

\* ---- C15
\* C15: once the start marker is read, the pass ends only by reading a line
\* starting with '!' (unless a stale electricity timestamp ends it), and it
\* ends with the first such line.
C15_EndsAtFirstEndMarker ==
  /\ (~pass.awaiting_start /\ pass.status # "running" /\ pass.branch # "ignoring_telegram")
       => (pass.status = "returned" /\ raw \in { Raw(l) : l \in EndMarkerLines })
  /\ InBody => \A l \in EndMarkerLines : StepNow(l).status = "returned"

\* ---- C16
C16_Lines == Lines \cup { EmptyLine }

\* C16: while the pass waits for the start marker the record is empty, and
\* whatever line comes next the record stays empty and the pass goes on; a
\* line starting with '/' ends the wait, any other line does not and is not
\* classified.
C16_NothingBeforeStart ==
  (pc = "parse_telegram" /\ pass.awaiting_start) =>
    /\ pass.telegram_info = EmptyDict
    /\ pass.status = "running"
    /\ \A l \in C16_Lines :
         LET r == StepNow(l)
         IN  /\ r.telegram_info = EmptyDict
             /\ r.status = "running"
             /\ r.awaiting_start = ~startswith(l, "/")
             /\ r.branch \in {"empty", "start", "ignored_waiting_for_start"}

C16_Witness ==
  /\ pc = "main" /\ pass.branch = "end_of_telegram"
  /\ Len(pass.t_content) = 5
  /\ pass.t_content[1].lead = "!" /\ pass.t_content[2].lead = "/"
  /\ DOMAIN pass.telegram_info = {"power_delivered_w"}

\* ---- C17
GasKeys == {"gas", "gas_time", "gas_dt"}

C17_Step ==
  InBody =>
    \A l \in GasLines :
      LET wall == l.groups[1].n \div 1000
          r    == StepNow(l)
      IN  (last_dt_gas = None \/ localize(wall) > last_dt_gas.n) =>
            /\ r.status = "running"
            /\ DOMAIN r.telegram_info = DOMAIN pass.telegram_info \cup GasKeys
            /\ \A k \in DOMAIN pass.telegram_info \ GasKeys :
                 r.telegram_info[k] = pass.telegram_info[k]
            /\ r.telegram_info["gas"] = Num(l.groups[2].n)
            /\ r.telegram_info["gas_dt"] = Num(localize(wall))
            /\ parse_influx_dt(r.telegram_info["gas_time"]) = r.telegram_info["gas_dt"]

C17_Record ==
  (pc \in {"parse_telegram", "main", "exit"} /\ IsDict(pass.telegram_info)) =>
    /\ DOMAIN pass.telegram_info \cap GasKeys \in { {}, GasKeys }
    /\ "gas_dt" \in DOMAIN pass.telegram_info =>
         parse_influx_dt(pass.telegram_info["gas_time"]) = pass.telegram_info["gas_dt"]

\* C17: a gas line of the body with a timestamp strictly greater than the
\* gas watermark (or with no gas watermark) puts three entries in the record
\* and changes nothing else: gas is the second group's value, gas_dt the UTC
\* instant of the first group's wall-clock time, and gas_time a text that
\* read back as UTC is gas_dt; every record holds all three or none.
C17_GasEntries == C17_Step /\ C17_Record

C17_Witness ==
  /\ pc = "main" /\ pass.branch = "end_of_telegram"
  /\ last_dt_gas # None
  /\ GasKeys \subseteq DOMAIN pass.telegram_info
  /\ pass.telegram_info["gas_dt"].n > last_dt_gas.n
  /\ pass.telegram_info["gas_time"] = Iso(0, 2)
  /\ "dt_electricity" \in DOMAIN pass.telegram_info

\* ---- C18
\* C18: a start-marker line read in the body starts a new telegram: nothing
\* decoded before it stays in the record.
C18_NewStartResetsRecord ==
  [][ (InBody /\ raw' = Raw(StartMarker)) => pass'.telegram_info = EmptyDict ]_vars

\* ---- C19
\* C19: every point written has a time strictly greater than the electricity
\* watermark held during its pass, so no point reuses an earlier time.
C19_PointTimesIncrease ==
  [][ (Len(sink') = Len(sink) + 1 /\ last_dt_electricity # None) =>
        sink'[Len(sink')].time.n > last_dt_electricity.n ]_vars

\* ---- C20
\* the instant at which the meter shows an hour with a flag
RealInstant(e) == e.wall - (IF e.flag = "S" THEN SummerOffset ELSE WinterOffset)

EmittedLine(e) == TimestampLine(e.wall, e.flag)

\* C20: when the electricity watermark is the conversion of a timestamp the
\* meter sent, a timestamp line the meter sends at a later instant converts
\* to a strictly greater instant and is not discarded as stale.
C20_ConversionKeepsOrder ==
  [][ \A e0 \in Emissions, e \in Emissions :
        ( /\ InBody
          /\ raw' = Raw(EmittedLine(e))
          /\ last_dt_electricity = InstantOf(EmittedLine(e0))
          /\ RealInstant(e0) < RealInstant(e) )
        => /\ InstantOf(EmittedLine(e0)).n < InstantOf(EmittedLine(e)).n
           /\ pass'.branch # "ignoring_telegram" ]_vars

====
